---- MODULE Spec2Model ----
(***************************************************************************)
(* snappy - tiered ZFS snapshot manager (src/snappy.py).                   *)
(*                                                                         *)
(* One run of main(): list the managed snapshots of a dataset, optionally  *)
(* create today's daily snapshot and list again, plan the tiered retention *)
(* (keep / deletes / renames), then issue the promotions and the           *)
(* deletions one collaborator call at a time.                              *)
(*                                                                         *)
(* Time is counted in ticks, TicksPerDay ticks to a calendar day; a        *)
(* timestamp is a tick number, its calendar day is the number of days      *)
(* since 1970-01-01.  A snapshot name is the sequence of its text pieces   *)
(* (dataset pieces, "@", prefix pieces, "-", the formatted timestamp, the  *)
(* tier suffix), so that str.replace acts on every piece it matches.       *)
(***************************************************************************)
EXTENDS Integers, Sequences, FiniteSets, TLC

VARIABLES
    pool,       \* the dataset's snapshots as zfs holds them, in creation order
    initial,    \* the pool as it was when the run started
    dataset,    \* args.dataset
    prefix,     \* snapshot_prefix of the resolved configuration section
    spec,       \* RetentionSpec counts
    dry,        \* args.dry
    create,     \* args.create
    now,        \* datetime.datetime.now() of the run
    pc,         \* position of main()
    snaps,      \* the list held by main(): result of the last list_snapshots
    keep,       \* tiered_retention: keep
    deletes,    \* tiered_retention: deletes
    renames,    \* tiered_retention: renames
    ri,         \* index of the next element of the rename loop
    todo,       \* names the deletion loop has still to visit
    log         \* the CREATE / RENAME / DELETE lines printed so far, in order

vars == <<pool, initial, dataset, prefix, spec, dry, create, now, pc, snaps,
          keep, deletes, renames, ri, todo, log>>

(***************************************************************************)
(* Bounds of the model.                                                    *)
(***************************************************************************)
MaxSnaps == 2       \* snapshots in the pool when the run starts
MaxCount == 1       \* largest retention count of a tier
MaxUsed == 1        \* largest "used" value zfs reports
TicksPerDay == 2    \* resolution of the clock within a day
MaxAge == 60        \* ages (days) over which the zone predicates are compared

Tiers == {"daily", "weekly", "monthly", "yearly"}

(***************************************************************************)
(* Calendar of datetime: proleptic Gregorian date of a day number.         *)
(***************************************************************************)
CivilOf(d) ==
    LET z   == d + 719468
        era == z \div 146097
        doe == z - era * 146097
        yoe == (doe - (doe \div 1460) + (doe \div 36524) - (doe \div 146096)) \div 365
        doy == doe - (365 * yoe + (yoe \div 4) - (yoe \div 100))
        mp  == (5 * doy + 2) \div 153
        m   == IF mp < 10 THEN mp + 3 ELSE mp - 9
    IN  [year  |-> yoe + era * 400 + (IF m <= 2 THEN 1 ELSE 0),
         month |-> m,
         day   |-> doy - ((153 * mp + 2) \div 5) + 1]

\* day number of January 1st of year y
NewYearDay(y) ==
    LET p   == y - 1
        era == p \div 400
        yoe == p - era * 400
    IN  era * 146097 + yoe * 365 + (yoe \div 4) - (yoe \div 100) + 306 - 719468

\* timestamp.date()
DateOf(ts) == ts \div TicksPerDay

\* timestamp.year
YearOf(ts) == CivilOf(DateOf(ts)).year

\* (timestamp.year, timestamp.month)
YearMonthOf(ts) == <<CivilOf(DateOf(ts)).year, CivilOf(DateOf(ts)).month>>

\* timestamp.isocalendar()[:2]: the ISO year and week of the day's Thursday
IsoWeekOf(ts) ==
    LET d        == DateOf(ts)
        weekday  == (d + 3) % 7          \* Monday = 0; 1970-01-01 was a Thursday
        thursday == d - weekday + 3
        y        == CivilOf(thursday).year
    IN  <<y, ((thursday - NewYearDay(y)) \div 7) + 1>>

\* age_days: timedelta.days is the floor of the difference in days
age_days(ts, n) == (n - ts) \div TicksPerDay

(***************************************************************************)
(* Naming: {dataset}@{prefix}-{timestamp}_{tier}                           *)
(***************************************************************************)
\* now.strftime("%Y-%m-%d_%H:%M:%S"): one piece of text per instant
Strftime(ts) == ToString(ts)

TierSuffix(tier) == "_" \o tier

FullName(ds, pfx, ts, tier) ==
    ds \o <<"@">> \o pfx \o <<"-", Strftime(ts), TierSuffix(tier)>>

\* str.replace(old, new): every occurrence is replaced
Replace(name, old, new) ==
    [i \in DOMAIN name |-> IF name[i] = old THEN new ELSE name[i]]

(***************************************************************************)
(* Snapshot enumeration.                                                   *)
(***************************************************************************)
\* the clock readings and name timestamps of the model
NowChoices == {20090 * TicksPerDay + 1}              \* 2025-01-02, a Thursday

\* (days before now, tick of that day) of the timestamps snapshots carry
StampPicks == {<<0, 0>>, <<1, 1>>, <<3, 0>>, <<400, 0>>}

Stamps(n) == {(DateOf(n) - p[1]) * TicksPerDay + p[2] : p \in StampPicks}

Index(seq, x) ==
    IF \E i \in DOMAIN seq : seq[i] = x
    THEN CHOOSE i \in DOMAIN seq : seq[i] = x /\ \A j \in 1..(i - 1) : seq[j] # x
    ELSE 0

\* parse_timestamp: the instant whose canonical text is ts, if there is one
parse_timestamp(text, n) ==
    IF \E t \in Stamps(n) \cup {n} : Strftime(t) = text
    THEN {CHOOSE t \in Stamps(n) \cup {n} : Strftime(t) = text}
    ELSE {}

\* one line of "zfs list": full.split("@", 1), the regex match, the Snapshot
ParseLine(line, pfx, n) ==
    LET full     == line.name
        at       == Index(full, "@")
        ds       == SubSeq(full, 1, at - 1)
        snapname == SubSeq(full, at + 1, Len(full))
        k        == Len(pfx)
        matches  == /\ at > 0
                    /\ Len(snapname) = k + 3
                    /\ SubSeq(snapname, 1, k) = pfx
                    /\ snapname[k + 1] = "-"
                    /\ parse_timestamp(snapname[k + 2], n) # {}
                    /\ \E t \in Tiers : snapname[k + 3] = TierSuffix(t)
    IN  IF matches
        THEN <<[dataset   |-> ds,
                full_name |-> full,
                prefix    |-> pfx,
                timestamp |-> CHOOSE t \in parse_timestamp(snapname[k + 2], n) : TRUE,
                tier      |-> CHOOSE t \in Tiers : snapname[k + 3] = TierSuffix(t),
                used      |-> line.used]>>
        ELSE <<>>

RECURSIVE list_snapshots(_, _, _)
list_snapshots(lines, pfx, n) ==
    IF lines = <<>> THEN <<>>
    ELSE ParseLine(Head(lines), pfx, n) \o list_snapshots(Tail(lines), pfx, n)

Names(seq) == {seq[i].full_name : i \in DOMAIN seq}

PoolNames(p) == {p[i].name : i \in DOMAIN p}

(***************************************************************************)
(* ZFS operations.  zfs snapshot and zfs rename fail when the name is      *)
(* taken; zfs rename also fails when it would move a snapshot to another   *)
(* dataset; zfs destroy fails when there is no such snapshot.              *)
(***************************************************************************)
DatasetOf(name) == SubSeq(name, 1, Index(name, "@") - 1)

CreateFails(p, full) == full \in PoolNames(p)

RenameFails(p, old, new) ==
    \/ old \notin PoolNames(p)
    \/ new \in PoolNames(p)
    \/ DatasetOf(new) # DatasetOf(old)

DestroyFails(p, full) == full \notin PoolNames(p)

Renamed(p, old, new) ==
    [i \in DOMAIN p |-> IF p[i].name = old THEN [p[i] EXCEPT !.name = new] ELSE p[i]]

Destroyed(p, full) == SelectSeq(p, LAMBDA l : l.name # full)

Line(op, name, to) == [op |-> op, name |-> name, to |-> to]

(***************************************************************************)
(* Snapshot creation logic.                                                *)
(***************************************************************************)
\* create_daily_snapshot up to the call of zfs_create: TRUE when it creates
CreateWanted(ss, n) ==
    IF ss = <<>> THEN TRUE
    ELSE LET last == ss[Len(ss)]
         IN  /\ ~(DateOf(last.timestamp) = DateOf(n) /\ last.tier = "daily")
             /\ last.used # 0

NewDailyName(ds, pfx, n) == FullName(ds, pfx, n, "daily")

(***************************************************************************)
(* Helpers for retention logic.                                            *)
(***************************************************************************)
\* Python's order on key tuples of equal length
TupleLess(a, b) ==
    \E i \in DOMAIN a : a[i] < b[i] /\ \A j \in 1..(i - 1) : a[j] = b[j]

\* sorted(seq, key=...): the stable sort; keys[i] is the key of seq[i]
StableSort(seq, keys) ==
    LET rank(i) == Cardinality({j \in DOMAIN seq :
                        \/ TupleLess(keys[j], keys[i])
                        \/ (~TupleLess(keys[i], keys[j]) /\ j < i)}) + 1
    IN  [p \in DOMAIN seq |-> seq[CHOOSE i \in DOMAIN seq : rank(i) = p]]

\* key=lambda s: s.timestamp
TimestampKeys(seq) == [i \in DOMAIN seq |-> <<seq[i].timestamp>>]

\* key=lambda s: (s.used, s.timestamp)
UsedTimestampKeys(seq) == [i \in DOMAIN seq |-> <<seq[i].used, seq[i].timestamp>>]

pick_best(group) ==
    LET sorted == StableSort(group, UsedTimestampKeys(group))
    IN  sorted[Len(sorted)]

\* the elements of seq at the indices in at, in order
Pick(seq, at) ==
    LET nth(k) == CHOOSE i \in at : Cardinality({j \in at : j < i}) = k - 1
    IN  [k \in 1..Cardinality(at) |-> seq[nth(k)]]

\* the dict of buckets as the sequence of its values, in insertion order;
\* keys[i] is the bucket key of zone[i]
GroupBy(zone, keys) ==
    LET firsts == {i \in DOMAIN zone : \A j \in 1..(i - 1) : keys[j] # keys[i]}
        heads  == Pick(keys, firsts)
    IN  [k \in DOMAIN heads |-> Pick(zone, {i \in DOMAIN zone : keys[i] = heads[k]})]

group_by_day(zone) == GroupBy(zone, [i \in DOMAIN zone |-> DateOf(zone[i].timestamp)])

group_by_week(zone) == GroupBy(zone, [i \in DOMAIN zone |-> IsoWeekOf(zone[i].timestamp)])

group_by_month(zone) == GroupBy(zone, [i \in DOMAIN zone |-> YearMonthOf(zone[i].timestamp)])

group_by_year(zone) == GroupBy(zone, [i \in DOMAIN zone |-> YearOf(zone[i].timestamp)])

(***************************************************************************)
(* Tiered retention engine: planning.                                      *)
(***************************************************************************)
daily_window(sp) == sp.daily

weekly_window(sp) == sp.daily + sp.weekly * 7

monthly_window(sp) == weekly_window(sp) + sp.monthly * 30

yearly_window(sp) == monthly_window(sp) + sp.yearly * 365

InDailyZone(age, sp) == age <= daily_window(sp)

InWeeklyZoneInclusive(age, sp) == daily_window(sp) <= age /\ age <= weekly_window(sp)

InWeeklyZone(age, sp) == daily_window(sp) < age /\ age <= weekly_window(sp)

InMonthlyZone(age, sp) == weekly_window(sp) < age /\ age <= monthly_window(sp)

InYearlyZoneInclusive(age, sp) == age >= monthly_window(sp)

InYearlyZoneBounded(age, sp) == monthly_window(sp) < age /\ age <= yearly_window(sp)

InYearlyZone(age, sp) == age > monthly_window(sp)

InZone(tier, age, sp) ==
    CASE tier = "daily"   -> InDailyZone(age, sp)
      [] tier = "weekly"  -> InWeeklyZone(age, sp)
      [] tier = "monthly" -> InMonthlyZone(age, sp)
      [] tier = "yearly"  -> InYearlyZone(age, sp)

\* snaps = sorted(snaps, key=lambda s: s.timestamp)
SortedSnaps(ss) == StableSort(ss, TimestampKeys(ss))

\* daily_zone, weekly_zone, monthly_zone, yearly_zone
Zone(tier, ss, sp, n) ==
    SelectSeq(SortedSnaps(ss), LAMBDA s : InZone(tier, age_days(s.timestamp, n), sp))

\* daily_buckets, weekly_buckets, month_buckets, year_buckets
Buckets(tier, ss, sp, n) ==
    CASE tier = "daily"   -> group_by_day(Zone(tier, ss, sp, n))
      [] tier = "weekly"  -> group_by_week(Zone(tier, ss, sp, n))
      [] tier = "monthly" -> group_by_month(Zone(tier, ss, sp, n))
      [] tier = "yearly"  -> group_by_year(Zone(tier, ss, sp, n))

\* new = best.full_name.replace("_" + best.tier, "_" + target)
PromotedName(best, target) ==
    Replace(best.full_name, TierSuffix(best.tier), TierSuffix(target))

IsRestAll(s, best) == TRUE

\* "delete the rest": if s.full_name != best.full_name
IsRest(s, best) == s.full_name # best.full_name

\* the body of "for key, group in buckets.items()"
ProcessGroup(plan, group, target) ==
    LET best == pick_best(group)
        new  == PromotedName(best, target)
    IN  [keep    |-> plan.keep \cup {best.full_name}
                        \cup (IF best.tier # target THEN {new} ELSE {}),
         renames |-> IF best.tier # target
                     THEN Append(plan.renames, <<best.full_name, new>>)
                     ELSE plan.renames,
         deletes |-> plan.deletes \cup
                        {group[i].full_name :
                            i \in {j \in DOMAIN group : IsRest(group[j], best)}}]

RECURSIVE ProcessBuckets(_, _, _)
ProcessBuckets(plan, buckets, target) ==
    IF buckets = <<>> THEN plan
    ELSE ProcessBuckets(ProcessGroup(plan, Head(buckets), target),
                        Tail(buckets), target)

EmptyPlan == [keep |-> {}, deletes |-> {}, renames |-> <<>>]

\* the four tier passes of tiered_retention, in order
PlanOf(ss, sp, n) ==
    LET d == ProcessBuckets(EmptyPlan, Buckets("daily", ss, sp, n), "daily")
        w == ProcessBuckets(d, Buckets("weekly", ss, sp, n), "weekly")
        m == ProcessBuckets(w, Buckets("monthly", ss, sp, n), "monthly")
    IN  ProcessBuckets(m, Buckets("yearly", ss, sp, n), "yearly")

\* if old != new and old not in deletes
RenameGuard(old, new, dels) == old # new /\ old \notin dels

DestroyGuardOff(full, kept) == TRUE

\* if full not in keep
DestroyGuard(full, kept) == full \notin kept

(***************************************************************************)
(* The run: Init is the state main() starts from, after argument parsing   *)
(* and configuration loading.                                              *)
(***************************************************************************)
\* (dataset, prefix) of a run: plain ones, and ones that contain tier text
NameSpaces ==
    {[dataset |-> <<"tank/data">>, prefix |-> <<"snappy">>],
     [dataset |-> <<"tank/db", "_daily">>, prefix |-> <<"auto", "_weekly">>]}

RetentionSpecs ==
    [daily : 0..MaxCount, weekly : 0..MaxCount,
     monthly : 0..MaxCount, yearly : 0..MaxCount]

\* the lines zfs can hold for the dataset: managed names, each name once
PoolLines(ds, pfx, n) ==
    {[name |-> FullName(ds, pfx, t, tier), used |-> u] :
        t \in Stamps(n), tier \in Tiers, u \in 0..MaxUsed}

Pools(ds, pfx, n) ==
    {p \in UNION {[1..k -> PoolLines(ds, pfx, n)] : k \in 0..MaxSnaps} :
        \A i, j \in DOMAIN p : p[i].name = p[j].name => i = j}

Init ==
    /\ \E ns \in NameSpaces : dataset = ns.dataset /\ prefix = ns.prefix
    /\ spec \in RetentionSpecs
    /\ dry \in BOOLEAN
    /\ create \in BOOLEAN
    /\ now \in NowChoices
    /\ pool \in Pools(dataset, prefix, now)
    /\ initial = pool
    /\ pc = "list"
    /\ snaps = <<>>
    /\ keep = {}
    /\ deletes = {}
    /\ renames = <<>>
    /\ ri = 1
    /\ todo = {}
    /\ log = <<>>

inputs == <<initial, dataset, prefix, spec, dry, create, now>>

plan == <<keep, deletes, renames, ri, todo>>

\* main: snaps = list_snapshots(args.dataset, prefix)
ListSnapshots ==
    /\ pc = "list"
    /\ snaps' = list_snapshots(pool, prefix, now)
    /\ pc' = IF create THEN "create" ELSE "retain"
    /\ UNCHANGED <<pool, inputs, plan, log>>

\* main: create_daily_snapshot returns without creating, then the refresh
CreateSkipped ==
    /\ pc = "create"
    /\ ~CreateWanted(snaps, now)
    /\ snaps' = list_snapshots(pool, prefix, now)
    /\ pc' = "retain"
    /\ UNCHANGED <<pool, inputs, plan, log>>

\* main: create_daily_snapshot calls zfs_create, which prints and (unless dry)
\* runs zfs snapshot, then the refresh; the new snapshot's "used" is whatever
\* zfs reports for it
CreateIssued ==
    /\ pc = "create"
    /\ CreateWanted(snaps, now)
    /\ LET name == NewDailyName(dataset, prefix, now)
       IN  /\ log' = Append(log, Line("CREATE", name, <<>>))
           /\ IF dry
              THEN pool' = pool /\ pc' = "retain"
              ELSE IF CreateFails(pool, name)
                   THEN pool' = pool /\ pc' = "create_failed"
                   ELSE /\ \E u \in 0..MaxUsed :
                              pool' = Append(pool, [name |-> name, used |-> u])
                        /\ pc' = "retain"
    /\ snaps' = IF pc' = "retain" THEN list_snapshots(pool', prefix, now) ELSE snaps
    /\ UNCHANGED <<inputs, plan>>

\* tiered_retention: "if not snaps: return"
RetainNothing ==
    /\ pc = "retain"
    /\ snaps = <<>>
    /\ pc' = "done"
    /\ UNCHANGED <<pool, inputs, snaps, plan, log>>

\* tiered_retention up to "EXECUTE OPERATIONS"
PlanRetention ==
    /\ pc = "retain"
    /\ snaps # <<>>
    /\ LET p == PlanOf(snaps, spec, now)
       IN  /\ keep' = p.keep
           /\ deletes' = p.deletes
           /\ renames' = p.renames
    /\ ri' = 1
    /\ pc' = "renames"
    /\ UNCHANGED <<pool, inputs, snaps, todo, log>>

\* one pass of "for old, new in renames"
RenameStep ==
    /\ pc = "renames"
    /\ ri <= Len(renames)
    /\ LET old == renames[ri][1]
           new == renames[ri][2]
       IN  IF ~RenameGuard(old, new, deletes)
           THEN /\ ri' = ri + 1
                /\ UNCHANGED <<pool, pc, log>>
           ELSE /\ log' = Append(log, Line("RENAME", old, new))
                /\ IF dry
                   THEN ri' = ri + 1 /\ UNCHANGED <<pool, pc>>
                   ELSE IF RenameFails(pool, old, new)
                        THEN pc' = "apply_failed" /\ UNCHANGED <<pool, ri>>
                        ELSE /\ pool' = Renamed(pool, old, new)
                             /\ ri' = ri + 1
                             /\ pc' = pc
    /\ UNCHANGED <<inputs, snaps, keep, deletes, renames, todo>>

\* the rename loop ends; "for full in deletes" starts
RenamesDone ==
    /\ pc = "renames"
    /\ ri > Len(renames)
    /\ todo' = deletes
    /\ pc' = "deletes"
    /\ UNCHANGED <<pool, inputs, snaps, keep, deletes, renames, ri, log>>

\* one pass of "for full in deletes"; a set is iterated in no particular order
DeleteStep ==
    /\ pc = "deletes"
    /\ \E full \in todo :
          /\ todo' = todo \ {full}
          /\ IF ~DestroyGuard(full, keep)
             THEN UNCHANGED <<pool, pc, log>>
             ELSE /\ log' = Append(log, Line("DELETE", full, <<>>))
                  /\ IF dry
                     THEN UNCHANGED <<pool, pc>>
                     ELSE IF DestroyFails(pool, full)
                          THEN pc' = "apply_failed" /\ pool' = pool
                          ELSE pool' = Destroyed(pool, full) /\ pc' = pc
    /\ UNCHANGED <<inputs, snaps, keep, deletes, renames, ri>>

\* tiered_retention returns
DeletesDone ==
    /\ pc = "deletes"
    /\ todo = {}
    /\ pc' = "done"
    /\ UNCHANGED <<pool, inputs, snaps, plan, log>>

Next ==
    \/ ListSnapshots
    \/ CreateSkipped
    \/ CreateIssued
    \/ RetainNothing
    \/ PlanRetention
    \/ RenameStep
    \/ RenamesDone
    \/ DeleteStep
    \/ DeletesDone

Spec == Init /\ [][Next]_vars

(***************************************************************************)
(* Vocabulary of the properties.                                           *)
(***************************************************************************)
\* tiered_retention has filled keep, deletes and renames
Planned == pc \in {"renames", "deletes", "done", "apply_failed"} /\ snaps # <<>>

\* the state planning leaves: snaps, spec, now, keep, deletes and renames do
\* not change from here to the end of the run
PlanMade == pc = "renames" /\ ri = 1

\* <<target tier, group>> for every bucket of every zone of a listing
GroupsOf(ss, sp, n) ==
    UNION {LET b == Buckets(t, ss, sp, n)
           IN  {<<t, b[k]>> : k \in DOMAIN b} : t \in Tiers}

AllGroups == GroupsOf(snaps, spec, now)

Issued(op) == {log[i].name : i \in {j \in DOMAIN log : log[j].op = op}}

GroupNames(group) == {group[i].full_name : i \in DOMAIN group}

\* what one bucket contributes to keep
KeptFor(target, group) ==
    LET best == pick_best(group)
    IN  {best.full_name}
            \cup (IF best.tier # target THEN {PromotedName(best, target)} ELSE {})

\* C1: zfs_destroy is never issued for a name in keep: not for the current
\* name of the survivor of any bucket of any zone, and not for the
\* destination of an emitted promotion rename.
NeverDestroysKept ==
    \A full \in Issued("DELETE") :
        /\ full \notin keep
        /\ \A g \in AllGroups : full # pick_best(g[2]).full_name
        /\ \A k \in DOMAIN renames : full # renames[k][2]

\* a run that ended after destroying a snapshot and emitting a promotion
NeverDestroysKeptWitness ==
    /\ pc = "done"
    /\ Issued("DELETE") # {}
    /\ renames # <<>>
    /\ keep # {}

\* C2 as stated: keep and deletes partition every bucket, keep holding exactly
\* one element for the bucket: the survivor, under its new name if promoted.
BucketHasOneKeptName ==
    PlanMade =>
        \A g \in AllGroups :
            LET names == GroupNames(g[2])
                best  == pick_best(g[2])
                final == IF best.tier # g[1]
                         THEN PromotedName(best, g[1]) ELSE best.full_name
            IN  /\ deletes \cap names = names \ {best.full_name}
                /\ keep \cap (names \cup {final}) = {final}

\* C2 amended: deletes holds every member of a bucket except the survivor;
\* keep holds the survivor's current name and, when it is promoted, its new
\* name as well; no other name of the bucket is in keep, so keep and deletes
\* meet only where the new name is already borne by a member of the bucket.
BucketKeepsSurvivorNames ==
    PlanMade =>
        LET groups == AllGroups
        IN  /\ \A g \in groups :
                  LET names == GroupNames(g[2])
                      kept  == KeptFor(g[1], g[2])
                  IN  /\ deletes \cap names = names \ {pick_best(g[2]).full_name}
                      /\ kept \subseteq keep
                      /\ keep \cap names \subseteq kept
            /\ keep = UNION {KeptFor(g[1], g[2]) : g \in groups}
            /\ deletes \subseteq Names(snaps)

\* a plan with a promoted survivor whose bucket has another member
BucketKeepsSurvivorNamesWitness ==
    /\ PlanMade
    /\ Cardinality(keep) > 1
    /\ deletes # {}
    /\ \E g \in AllGroups : Len(g[2]) > 1 /\ pick_best(g[2]).tier # g[1]

\* C3: for non-negative counts and every age >= 0 exactly one of the four
\* zone predicates holds, so every listed snapshot is in exactly one zone
\* and in exactly one bucket.
ZonesPartitionAges ==
    /\ pc = "retain" =>
          \A age \in 0..MaxAge :
              Cardinality({t \in Tiers : InZone(t, age, spec)}) = 1
    /\ PlanMade =>
          LET groups == AllGroups
          IN  \A i \in DOMAIN snaps :
                  /\ Cardinality({t \in Tiers :
                         InZone(t, age_days(snaps[i].timestamp, now), spec)}) = 1
                  /\ Cardinality({t \in Tiers :
                         snaps[i].full_name \in Names(Zone(t, snaps, spec, now))}) = 1
                  /\ Cardinality({g \in groups :
                         snaps[i].full_name \in GroupNames(g[2])}) = 1

\* a plan over a listing with one snapshot in the weekly zone and another in
\* the monthly or yearly zone
ZonesPartitionAgesWitness ==
    /\ PlanMade
    /\ Zone("weekly", snaps, spec, now) # <<>>
    /\ Zone("monthly", snaps, spec, now) \o Zone("yearly", snaps, spec, now) # <<>>

\* C4 as stated: a tier whose count is 0 never receives a snapshot of
\* age >= 0, for each of the four tiers.
ZeroCountZoneIsEmpty ==
    PlanMade =>
        \A t \in Tiers :
            spec[t] = 0 =>
                \A s \in {snaps[i] : i \in DOMAIN snaps} :
                    age_days(s.timestamp, now) >= 0 =>
                        s.full_name \notin Names(Zone(t, snaps, spec, now))

\* C4 amended: with weekly = 0 (monthly = 0) nothing lands in the weekly
\* (monthly) zone; with daily = 0 the daily zone holds exactly the snapshots
\* of age 0 among ages >= 0; the yearly zone is the same for every yearly
\* count, 0 included.
ZeroCountCollapsesInnerZones ==
    /\ pc = "retain" =>
          /\ spec.weekly = 0 => \A age \in 0..MaxAge : ~InZone("weekly", age, spec)
          /\ spec.monthly = 0 => \A age \in 0..MaxAge : ~InZone("monthly", age, spec)
          /\ spec.daily = 0 =>
                \A age \in 0..MaxAge : InZone("daily", age, spec) <=> age = 0
          /\ \A y \in 0..(MaxCount + 1) : \A age \in 0..MaxAge :
                InZone("yearly", age, [spec EXCEPT !.yearly = y])
                    <=> InZone("yearly", age, spec)
    /\ PlanMade =>
          /\ spec.weekly = 0 => Zone("weekly", snaps, spec, now) = <<>>
          /\ spec.monthly = 0 => Zone("monthly", snaps, spec, now) = <<>>
          /\ spec.daily = 0 =>
                \A s \in {snaps[i] : i \in DOMAIN snaps} :
                    s.full_name \in Names(Zone("daily", snaps, spec, now))
                        <=> age_days(s.timestamp, now) <= 0
          /\ \A y \in 0..(MaxCount + 1) :
                Zone("yearly", snaps, [spec EXCEPT !.yearly = y], now)
                    = Zone("yearly", snaps, spec, now)

\* a plan under all-zero counts with a snapshot in the daily zone and
\* another in the yearly zone
ZeroCountCollapsesInnerZonesWitness ==
    /\ PlanMade
    /\ spec.daily = 0 /\ spec.weekly = 0 /\ spec.monthly = 0 /\ spec.yearly = 0
    /\ Zone("daily", snaps, spec, now) # <<>>
    /\ Zone("yearly", snaps, spec, now) # <<>>

Reorderings(group) ==
    {[i \in DOMAIN group |-> group[f[i]]] : f \in Permutations(DOMAIN group)}

\* C5: pick_best returns the same snapshot for every ordering of a group the
\* engine builds: a member with the largest (usedBytes, timestamp).
PickBestIgnoresOrder ==
    PlanMade =>
        \A g \in AllGroups :
            \A p \in Reorderings(g[2]) :
                /\ pick_best(p) = pick_best(g[2])
                /\ \A i \in DOMAIN p :
                      ~TupleLess(UsedTimestampKeys(<<pick_best(p)>>)[1],
                                 UsedTimestampKeys(p)[i])

\* the listed snapshots with the latest timestamp
Latest(ss) ==
    {ss[i] : i \in {j \in DOMAIN ss :
                       \A k \in DOMAIN ss : ss[k].timestamp <= ss[j].timestamp}}

Creatable(s, n) ==
    /\ ~(s.tier = "daily" /\ DateOf(s.timestamp) = DateOf(n))
    /\ s.used # 0

\* C6: create_daily_snapshot issues createSnapshot (tier daily, timestamp now)
\* if and only if no managed snapshot exists or the snapshot with the latest
\* timestamp is not today's daily and has usedBytes # 0.
CreatesIffLatestAllows ==
    (create /\ pc \in {"retain", "create_failed"}) =>
        LET listed == list_snapshots(initial, prefix, now)
        IN  /\ Issued("CREATE") # {} =>
                  /\ listed = <<>> \/ \E s \in Latest(listed) : Creatable(s, now)
                  /\ Issued("CREATE") = {FullName(dataset, prefix, now, "daily")}
            /\ (\A s \in Latest(listed) : Creatable(s, now)) => Issued("CREATE") # {}

\* the lines of the log: the CREATEs and the RENAMEs in order, the DELETEs as a set
Lines(l) ==
    [creates |-> SelectSeq(l, LAMBDA x : x.op = "CREATE"),
     renames |-> SelectSeq(l, LAMBDA x : x.op = "RENAME"),
     deletes |-> {l[i] : i \in {j \in DOMAIN l : l[j].op = "DELETE"}}]

\* what a dry run prints from the initial pool: nothing is created, so the
\* second listing equals the first
DryRunLines ==
    LET listed == list_snapshots(initial, prefix, now)
        p      == IF listed = <<>> THEN EmptyPlan ELSE PlanOf(listed, spec, now)
        issued == SelectSeq(p.renames, LAMBDA r : RenameGuard(r[1], r[2], p.deletes))
    IN  [creates |-> IF create /\ CreateWanted(listed, now)
                     THEN <<Line("CREATE", NewDailyName(dataset, prefix, now), <<>>)>>
                     ELSE <<>>,
         renames |-> [i \in DOMAIN issued |-> Line("RENAME", issued[i][1], issued[i][2])],
         deletes |-> {Line("DELETE", d, <<>>) :
                        d \in {x \in p.deletes : DestroyGuard(x, p.keep)}}]

\* C7: a real run in which no collaborator call fails issues exactly the
\* operations a dry run logs from the same inputs.
RealRunMatchesDryRun ==
    (pc = "done" /\ ~dry) => Lines(log) = DryRunLines

\* C8: a promotion changes nothing but the tier suffix: the new name has the
\* dataset, the prefix and the timestamp of the old one and the zone's tier.
PromotionChangesOnlySuffix ==
    PlanMade =>
        \A g \in AllGroups :
            LET best == pick_best(g[2])
            IN  \A k \in DOMAIN renames :
                    renames[k][1] = best.full_name =>
                        renames[k][2] = FullName(best.dataset, best.prefix,
                                                 best.timestamp, g[1])

\* C9: a snapshot alone in its bucket is never put into deletes nor
\* destroyed, whatever its age and the counts; the plan is the same for
\* every yearly count.
SoleMemberSurvives ==
    /\ PlanMade =>
          /\ \A g \in AllGroups : Len(g[2]) = 1 => g[2][1].full_name \notin deletes
          /\ \A y \in 0..(MaxCount + 1) :
                PlanOf(snaps, [spec EXCEPT !.yearly = y], now)
                    = [keep |-> keep, deletes |-> deletes, renames |-> renames]
    /\ Issued("DELETE") # {} =>
          \A g \in AllGroups :
              Len(g[2]) = 1 => g[2][1].full_name \notin Issued("DELETE")

\* a real run that ended with a snapshot older than the yearly window still
\* in the pool, while another snapshot was destroyed
SoleMemberSurvivesWitness ==
    /\ pc = "done" /\ ~dry
    /\ spec.yearly > 0
    /\ Issued("DELETE") # {}
    /\ \E g \in AllGroups :
          /\ Len(g[2]) = 1
          /\ age_days(g[2][1].timestamp, now) > yearly_window(spec)
          /\ KeptFor(g[1], g[2]) \cap PoolNames(pool) # {}

\* C10: every zfs_rename that is issued targets a name that no snapshot
\* bears at that moment.
RenameTargetIsFree ==
    (/\ pc = "renames"
     /\ ri <= Len(renames)
     /\ RenameGuard(renames[ri][1], renames[ri][2], deletes))
        => renames[ri][2] \notin PoolNames(pool)

\* what the code does decide on: the last line of the listing, which zfs
\* sorts by creation
CreatesIffLastAllows ==
    (create /\ pc \in {"retain", "create_failed"}) =>
        LET listed == list_snapshots(initial, prefix, now)
        IN  Issued("CREATE") # {}
                <=> (listed = <<>> \/ Creatable(listed[Len(listed)], now))

\* a dry run prints DryRunLines
DryRunPrintsDryRunLines ==
    (pc = "done" /\ dry) => Lines(log) = DryRunLines

TypeOK ==
    /\ pc \in {"list", "create", "retain", "renames", "deletes", "done",
              "create_failed", "apply_failed"}
    /\ keep \subseteq (Names(snaps) \cup {renames[i][2] : i \in DOMAIN renames})
    /\ PoolNames(pool) # {} \/ pool = <<>>

====
